---- MODULE Spec2Model ----
(***************************************************************************)
(* Conway's Game of Life (LifeVibe): the simulation kernel of src/life.py  *)
(* (init_grid, load_pattern, _count_neighbors, _update_grid_numba,         *)
(* update_grid, get_cell_color), the pattern catalog of src/patterns.py    *)
(* and the event loop of main().                                           *)
(*                                                                         *)
(* A grid is a function [0..h-1 -> [0..w-1 -> BOOLEAN]], the numpy boolean *)
(* array of shape (h, w).                                                  *)
(***************************************************************************)
EXTENDS Integers, FiniteSets, Sequences, TLC

(***************************************************************************)
(* Configuration (src/life.py, lines 18-32).                               *)
(***************************************************************************)
GRID_WIDTH == 120

GRID_HEIGHT == 80

CELL_SIZE == 8

MARGIN == 1

BUTTON_PANEL_HEIGHT == 50

WIDTH == GRID_WIDTH * (CELL_SIZE + MARGIN) + MARGIN

HEIGHT == GRID_HEIGHT * (CELL_SIZE + MARGIN) + MARGIN + BUTTON_PANEL_HEIGHT

\* Button panel (src/life.py, lines 64-78).
BUTTON_WIDTH == 100

BUTTON_HEIGHT == 30

BUTTON_MARGIN == 10

ALL_BUTTONS == <<"start", "stop", "step", "clear", "patterns", "quit">>

(***************************************************************************)
(* numpy arrays: shape, element read and element write.  A negative index  *)
(* counts from the end of the axis, as in numpy and numba.                 *)
(***************************************************************************)
NumRows(g) == Cardinality(DOMAIN g)

NumCols(g) == Cardinality(DOMAIN g[0])

WrapIndex(i, n) == IF i < 0 THEN i + n ELSE i

ArrayGet(g, i, j) ==
  IF i >= 0 /\ j >= 0 THEN g[i][j]
  ELSE g[WrapIndex(i, NumRows(g))][WrapIndex(j, NumCols(g))]

ArraySet(g, i, j, v) ==
  LET wi == WrapIndex(i, NumRows(g))
      wj == WrapIndex(j, NumCols(g))
  IN [g EXCEPT ![wi] = [@ EXCEPT ![wj] = v]]

\* A numpy boolean added to an integer counts as 0 or 1.
BoolToInt(b) == IF b THEN 1 ELSE 0

Zeros(h, w) == [r \in 0..(h - 1) |-> [c \in 0..(w - 1) |-> FALSE]]

init_grid == Zeros(GRID_HEIGHT, GRID_WIDTH)

\* A sum that leaves out the last row.
SumGridSkipsLastRow(g) ==
  Cardinality({rc \in (DOMAIN g \ {NumRows(g) - 1}) \X (DOMAIN g[0]) : g[rc[1]][rc[2]]})

\* np.sum(grid): the number of True cells.
SumGrid(g) ==
  Cardinality({rc \in (DOMAIN g) \X (DOMAIN g[0]) : g[rc[1]][rc[2]]})

(***************************************************************************)
(* The pattern catalog (src/patterns.py): each pattern is the text of its  *)
(* triple-quoted string, one character per element.                        *)
(***************************************************************************)
NL == "\n"

Text_blinker ==
  <<NL>>
  \o <<".", ".", "O", ".", ".", NL>>
  \o <<".", ".", "O", ".", ".", NL>>
  \o <<".", ".", "O", ".", ".", NL>>

Text_toad ==
  <<NL>>
  \o <<".", "O", "O", "O", NL>>
  \o <<"O", "O", "O", ".", NL>>

Text_beacon ==
  <<NL>>
  \o <<"O", "O", ".", ".", NL>>
  \o <<"O", "O", ".", ".", NL>>
  \o <<".", ".", "O", "O", NL>>
  \o <<".", ".", "O", "O", NL>>

Text_pulsar ==
  <<NL>>
  \o <<".", ".", ".", "O", "O", "O", ".", ".", ".", "O", "O", "O", ".", ".", ".", NL>>
  \o <<".", ".", ".", ".", ".", ".", ".", ".", ".", ".", ".", ".", ".", ".", ".", ".", ".", NL>>
  \o <<".", "O", ".", ".", ".", ".", "O", ".", "O", ".", ".", ".", ".", "O", ".", NL>>
  \o <<".", "O", ".", ".", ".", ".", "O", ".", "O", ".", ".", ".", ".", "O", ".", NL>>
  \o <<".", "O", ".", ".", ".", ".", "O", ".", "O", ".", ".", ".", ".", "O", ".", NL>>
  \o <<".", ".", ".", "O", "O", "O", ".", ".", ".", "O", "O", "O", ".", ".", ".", NL>>
  \o <<".", ".", ".", ".", ".", ".", ".", ".", ".", ".", ".", ".", ".", ".", ".", ".", ".", NL>>
  \o <<".", ".", ".", "O", "O", "O", ".", ".", ".", "O", "O", "O", ".", ".", ".", NL>>
  \o <<".", "O", ".", ".", ".", ".", "O", ".", "O", ".", ".", ".", ".", "O", ".", NL>>
  \o <<".", "O", ".", ".", ".", ".", "O", ".", "O", ".", ".", ".", ".", "O", ".", NL>>
  \o <<".", "O", ".", ".", ".", ".", "O", ".", "O", ".", ".", ".", ".", "O", ".", NL>>
  \o <<".", ".", ".", ".", ".", ".", ".", ".", ".", ".", ".", ".", ".", ".", ".", ".", ".", NL>>
  \o <<".", ".", ".", "O", "O", "O", ".", ".", ".", "O", "O", "O", ".", ".", ".", NL>>

Text_penta_decathlon ==
  <<NL>>
  \o <<".", ".", "O", "O", "O", ".", ".", NL>>
  \o <<"O", ".", ".", ".", ".", ".", "O", NL>>
  \o <<"O", ".", ".", ".", ".", ".", "O", NL>>
  \o <<"O", ".", ".", ".", ".", ".", "O", NL>>
  \o <<".", ".", "O", "O", "O", ".", ".", NL>>

Text_glider ==
  <<NL>>
  \o <<".", "O", ".", NL>>
  \o <<".", ".", "O", NL>>
  \o <<"O", "O", "O", NL>>

Text_lwss ==
  <<NL>>
  \o <<".", "O", ".", ".", "O", NL>>
  \o <<"O", ".", ".", ".", ".", ".", NL>>
  \o <<"O", ".", "O", ".", ".", "O", NL>>
  \o <<".", "O", "O", "O", "O", ".", NL>>

Text_mwss ==
  <<NL>>
  \o <<".", "O", ".", ".", ".", "O", NL>>
  \o <<"O", ".", ".", ".", ".", ".", ".", NL>>
  \o <<"O", ".", ".", "O", ".", ".", "O", NL>>
  \o <<".", "O", "O", "O", "O", "O", ".", NL>>

Text_hwss ==
  <<NL>>
  \o <<".", "O", ".", ".", ".", ".", "O", NL>>
  \o <<"O", ".", ".", ".", ".", ".", ".", ".", NL>>
  \o <<"O", ".", ".", ".", "O", ".", ".", "O", NL>>
  \o <<".", "O", "O", "O", "O", "O", "O", ".", NL>>

Text_block ==
  <<NL>>
  \o <<"O", "O", NL>>
  \o <<"O", "O", NL>>

Text_tub ==
  <<NL>>
  \o <<".", "O", ".", NL>>
  \o <<"O", "O", "O", NL>>
  \o <<".", "O", ".", NL>>

Text_beehive ==
  <<NL>>
  \o <<".", "O", "O", ".", NL>>
  \o <<"O", ".", ".", "O", NL>>
  \o <<".", "O", "O", ".", NL>>

Text_loaf ==
  <<NL>>
  \o <<".", "O", "O", ".", NL>>
  \o <<"O", ".", ".", "O", NL>>
  \o <<".", "O", ".", "O", NL>>
  \o <<".", ".", "O", ".", NL>>

Text_boat ==
  <<NL>>
  \o <<"O", ".", "O", NL>>
  \o <<"O", "O", "O", NL>>
  \o <<".", "O", ".", NL>>

Text_pond ==
  <<NL>>
  \o <<".", "O", "O", ".", ".", NL>>
  \o <<"O", ".", ".", "O", ".", NL>>
  \o <<"O", ".", ".", "O", ".", NL>>
  \o <<".", "O", "O", ".", ".", NL>>

Text_ship ==
  <<NL>>
  \o <<"O", ".", "O", ".", NL>>
  \o <<"O", "O", "O", ".", NL>>
  \o <<".", "O", ".", ".", NL>>

Text_aircraft ==
  <<NL>>
  \o <<".", ".", "O", ".", NL>>
  \o <<"O", ".", ".", ".", NL>>
  \o <<"O", "O", "O", ".", NL>>
  \o <<".", "O", ".", "O", NL>>

Text_gosper_glider_gun ==
  <<NL>>
  \o <<".", ".", ".", ".", ".", ".", ".", ".", ".", ".", ".", ".", ".", ".", ".", ".", ".", ".", ".", ".", ".", ".", ".", ".", "O", ".", ".", ".", ".", ".", ".", ".", ".", ".", ".", ".", NL>>
  \o <<".", ".", ".", ".", ".", ".", ".", ".", ".", ".", ".", ".", ".", ".", ".", ".", ".", ".", ".", ".", ".", ".", "O", ".", "O", ".", ".", ".", ".", ".", ".", ".", ".", ".", ".", ".", NL>>
  \o <<".", ".", ".", ".", ".", ".", ".", ".", ".", ".", ".", ".", "O", "O", ".", ".", ".", ".", ".", ".", "O", "O", ".", ".", ".", ".", ".", ".", ".", ".", ".", ".", ".", ".", "O", "O", NL>>
  \o <<".", ".", ".", ".", ".", ".", ".", ".", ".", ".", ".", "O", ".", ".", ".", "O", ".", ".", ".", ".", "O", "O", ".", ".", ".", ".", ".", ".", ".", ".", ".", ".", ".", ".", "O", "O", NL>>
  \o <<"O", "O", ".", ".", ".", ".", ".", ".", ".", ".", "O", ".", ".", ".", ".", ".", "O", ".", ".", ".", "O", "O", ".", ".", ".", ".", ".", ".", ".", ".", ".", ".", ".", ".", ".", ".", NL>>
  \o <<"O", "O", ".", ".", ".", ".", ".", ".", ".", ".", "O", ".", ".", ".", "O", ".", "O", "O", ".", ".", ".", ".", "O", ".", "O", ".", ".", ".", ".", ".", ".", ".", ".", ".", ".", ".", NL>>
  \o <<".", ".", ".", ".", ".", ".", ".", ".", ".", ".", "O", ".", ".", ".", ".", ".", "O", ".", ".", ".", ".", ".", ".", ".", "O", ".", ".", ".", ".", ".", ".", ".", ".", ".", ".", ".", NL>>
  \o <<".", ".", ".", ".", ".", ".", ".", ".", ".", ".", ".", "O", ".", ".", ".", "O", ".", ".", ".", ".", ".", ".", ".", ".", ".", ".", ".", ".", ".", ".", ".", ".", ".", ".", ".", ".", NL>>
  \o <<".", ".", ".", ".", ".", ".", ".", ".", ".", ".", ".", ".", "O", "O", ".", ".", ".", ".", ".", ".", ".", ".", ".", ".", ".", ".", ".", ".", ".", ".", ".", ".", ".", ".", ".", ".", ".", NL>>

Text_beehive_with_tail ==
  <<NL>>
  \o <<".", "O", "O", ".", NL>>
  \o <<"O", ".", ".", "O", NL>>
  \o <<".", "O", "O", ".", NL>>
  \o <<".", "O", ".", ".", NL>>

Text_pi_heptomino ==
  <<NL>>
  \o <<"O", "O", "O", NL>>
  \o <<"O", ".", "O", NL>>
  \o <<".", "O", "O", NL>>

Text_b_heptomino ==
  <<NL>>
  \o <<".", "O", "O", NL>>
  \o <<"O", "O", ".", NL>>
  \o <<".", "O", ".", NL>>
  \o <<".", "O", ".", NL>>

Text_acorn ==
  <<NL>>
  \o <<".", "O", ".", ".", ".", ".", NL>>
  \o <<".", ".", ".", "O", ".", ".", NL>>
  \o <<"O", "O", ".", "O", "O", "O", NL>>

Text_die_hard ==
  <<NL>>
  \o <<".", ".", ".", ".", ".", ".", "O", NL>>
  \o <<"O", "O", ".", ".", ".", ".", ".", NL>>
  \o <<".", "O", ".", ".", ".", "O", "O", NL>>
  \o <<".", ".", ".", "O", ".", ".", ".", NL>>

PATTERNS ==
  [blinker |-> Text_blinker,
   toad |-> Text_toad,
   beacon |-> Text_beacon,
   pulsar |-> Text_pulsar,
   penta_decathlon |-> Text_penta_decathlon,
   glider |-> Text_glider,
   lwss |-> Text_lwss,
   mwss |-> Text_mwss,
   hwss |-> Text_hwss,
   block |-> Text_block,
   tub |-> Text_tub,
   beehive |-> Text_beehive,
   loaf |-> Text_loaf,
   boat |-> Text_boat,
   pond |-> Text_pond,
   ship |-> Text_ship,
   aircraft |-> Text_aircraft,
   gosper_glider_gun |-> Text_gosper_glider_gun,
   beehive_with_tail |-> Text_beehive_with_tail,
   pi_heptomino |-> Text_pi_heptomino,
   b_heptomino |-> Text_b_heptomino,
   acorn |-> Text_acorn,
   die_hard |-> Text_die_hard]

(***************************************************************************)
(* Python string operations used on a pattern's text.                      *)
(***************************************************************************)
Whitespace == {" ", "\n", "\t", "\r"}

\* str.strip(): drop the leading and the trailing whitespace.
Strip(s) ==
  LET keep == {i \in 1..Len(s) : s[i] \notin Whitespace}
  IN IF keep = {} THEN <<>>
     ELSE LET lo == CHOOSE i \in keep : \A k \in keep : i <= k
              hi == CHOOSE i \in keep : \A k \in keep : k <= i
          IN SubSeq(s, lo, hi)

\* str.split(sep): the pieces between the occurrences of sep.
Split(s, sep) ==
  LET at == {i \in 1..Len(s) : s[i] = sep}
      \* the position of the k-th separator; 0 and Len(s) + 1 close the ends
      pos(k) == IF k = 0 THEN 0
                ELSE IF k > Cardinality(at) THEN Len(s) + 1
                ELSE CHOOSE i \in at : Cardinality({j \in at : j < i}) = k - 1
  IN [k \in 1..(Cardinality(at) + 1) |-> SubSeq(s, pos(k - 1) + 1, pos(k) - 1)]

\* PATTERNS.get(name): None for a name that is no key of the catalog.
None == <<"None">>

\* A lookup that ignores the case of the name.
LowerCase(pattern_name) ==
  CASE pattern_name = "Glider" -> "glider"
    [] pattern_name = "BLOCK" -> "block"
    [] OTHER -> pattern_name

PatternsGetIgnoreCase(pattern_name) ==
  IF LowerCase(pattern_name) \in DOMAIN PATTERNS
  THEN PATTERNS[LowerCase(pattern_name)] ELSE None

PatternsGet(pattern_name) ==
  IF pattern_name \in DOMAIN PATTERNS THEN PATTERNS[pattern_name] ELSE None

\* pattern_string.strip().split('\n')
PatternLines(pattern_string) == Split(Strip(pattern_string), NL)

\* The (r, c) of enumerate(pattern_lines) x enumerate(line.strip()) whose
\* character is 'O'.
LiveMarkers(pattern_lines) ==
  UNION { LET line == Strip(pattern_lines[k])
          IN {<<k - 1, i - 1>> : i \in {x \in 1..Len(line) : line[x] = "O"}} :
          k \in 1..Len(pattern_lines) }

(***************************************************************************)
(* load_pattern (src/life.py, lines 96-124): writes 1 at every in-bounds   *)
(* (r + offset[0], c + offset[1]) of an 'O'; the value is the grid after   *)
(* the call (the code writes the caller's array in place).                 *)
(***************************************************************************)
\* StampInBounds without the lower bounds of the boundary check.
StampInBoundsNoLowerBound(row, col, g) ==
  row < NumRows(g) /\ col < NumCols(g)

StampInBounds(row, col, g) ==
  0 <= row /\ row < NumRows(g) /\ 0 <= col /\ col < NumCols(g)

\* The cells the loops write: for every 'O' that passes the boundary check,
\* the element grid[row, col] of numpy's indexing.
StampWrites(g, markers, offset) ==
  { <<WrapIndex(x[1] + offset[1], NumRows(g)), WrapIndex(x[2] + offset[2], NumCols(g))>> :
    x \in {y \in markers : StampInBounds(y[1] + offset[1], y[2] + offset[2], g)} }

load_pattern(g, pattern_name, offset) ==
  LET pattern_string == PatternsGet(pattern_name)
  IN IF pattern_string = None \/ pattern_string = <<>> THEN g
     ELSE LET writes == StampWrites(g, LiveMarkers(PatternLines(pattern_string)), offset)
          IN [r \in DOMAIN g |->
               [c \in DOMAIN g[r] |-> IF <<r, c>> \in writes THEN TRUE ELSE g[r][c]]]

(***************************************************************************)
(* _count_neighbors (src/life.py, lines 134-168): the two loops over       *)
(* i, j in range(-1, 2), written out in the order they run.                *)
(***************************************************************************)
\* NeighborTerm without the lower bounds of the boundary check.
NeighborTermNoLowerBound(g, r, c, i, j, height, width) ==
  IF i = 0 /\ j = 0 THEN 0
  ELSE LET nr == r + i
           nc == c + j
       IN IF nr < height /\ nc < width
          THEN BoolToInt(ArrayGet(g, nr, nc))
          ELSE 0

\* NeighborTerm without the skip of the centre cell.
NeighborTermCountsSelf(g, r, c, i, j, height, width) ==
  LET nr == r + i
      nc == c + j
  IN IF 0 <= nr /\ nr < height /\ 0 <= nc /\ nc < width
     THEN BoolToInt(ArrayGet(g, nr, nc))
     ELSE 0

NeighborTerm(g, r, c, i, j, height, width) ==
  IF i = 0 /\ j = 0 THEN 0
  ELSE LET nr == r + i
           nc == c + j
       IN IF 0 <= nr /\ nr < height /\ 0 <= nc /\ nc < width
          THEN BoolToInt(ArrayGet(g, nr, nc))
          ELSE 0

_count_neighbors(g, r, c, height, width) ==
    NeighborTerm(g, r, c, -1, -1, height, width)
  + NeighborTerm(g, r, c, -1, 0, height, width)
  + NeighborTerm(g, r, c, -1, 1, height, width)
  + NeighborTerm(g, r, c, 0, -1, height, width)
  + NeighborTerm(g, r, c, 0, 0, height, width)
  + NeighborTerm(g, r, c, 0, 1, height, width)
  + NeighborTerm(g, r, c, 1, -1, height, width)
  + NeighborTerm(g, r, c, 1, 0, height, width)
  + NeighborTerm(g, r, c, 1, 1, height, width)

(***************************************************************************)
(* _update_grid_numba (src/life.py, lines 171-211): new_grid starts as a   *)
(* copy of grid; cell (r, c) of new_grid is written from grid alone.       *)
(***************************************************************************)
\* CellRule with the overpopulation limit off by one.
CellRuleDiesAbove4(state, neighbors) ==
  IF state
  THEN (IF neighbors < 2 \/ neighbors > 4 THEN FALSE ELSE state)
  ELSE (IF neighbors = 3 THEN TRUE ELSE state)

\* CellRule with birth on 2 or 3 neighbours.
CellRuleBornOn2(state, neighbors) ==
  IF state
  THEN (IF neighbors < 2 \/ neighbors > 3 THEN FALSE ELSE state)
  ELSE (IF neighbors = 3 \/ neighbors = 2 THEN TRUE ELSE state)

CellRule(state, neighbors) ==
  IF state
  THEN (IF neighbors < 2 \/ neighbors > 3 THEN FALSE ELSE state)
  ELSE (IF neighbors = 3 THEN TRUE ELSE state)

_update_grid_numba(g, height, width) ==
  [r \in DOMAIN g |->
    [c \in DOMAIN g[r] |->
      IF r < height /\ c < width
      THEN CellRule(g[r][c], _count_neighbors(g, r, c, height, width))
      ELSE g[r][c]]]

update_grid(g) == _update_grid_numba(g, GRID_HEIGHT, GRID_WIDTH)

get_neighbors(g, r, c) == _count_neighbors(g, r, c, GRID_HEIGHT, GRID_WIDTH)

(***************************************************************************)
(* get_cell_color (src/life.py, lines 302-322).                            *)
(***************************************************************************)
COLOR_LONELY == <<0, 255, 255>>

COLOR_STABLE == <<0, 255, 0>>

COLOR_CROWDED == <<255, 69, 0>>

\* The Stable class reaching up to 4 neighbours.
get_cell_colorStableUpTo4(neighbors) ==
  IF neighbors < 2 THEN COLOR_LONELY
  ELSE IF neighbors <= 4 THEN COLOR_STABLE
  ELSE COLOR_CROWDED

get_cell_color(neighbors) ==
  IF neighbors < 2 THEN COLOR_LONELY
  ELSE IF neighbors <= 3 THEN COLOR_STABLE
  ELSE COLOR_CROWDED

(***************************************************************************)
(* State.  The first group is the state of main() (src/life.py, lines      *)
(* 409-416) with the position of its loop; applied records, for the        *)
(* properties below, how many times update_grid was applied to the grid of *)
(* main() since the last Clear, pattern load or start, and since_clear     *)
(* whether the last step handled a click on Clear ("clear") or drew the    *)
(* frame right after one ("frame").  call is one call of a kernel function *)
(* with its arguments and result; par is one update computation taken cell *)
(* by cell.                                                                *)
(***************************************************************************)
VARIABLES grid, running, paused, generation, active_cells, button_rects,
          show_pattern_menu, pattern_rects, pc, applied, since_clear, call, par

mainVars == <<grid, running, paused, generation, active_cells, button_rects,
              show_pattern_menu, pattern_rects, pc, applied, since_clear>>

vars == <<grid, running, paused, generation, active_cells, button_rects,
          show_pattern_menu, pattern_rects, pc, applied, since_clear, call, par>>

\* The state of main() before its loop starts (lines 409-416).
MainInit ==
  /\ grid = init_grid
  /\ running = TRUE
  /\ paused = TRUE
  /\ generation = 0
  /\ active_cells = 0
  /\ button_rects = [a \in {} |-> 0]
  /\ show_pattern_menu = FALSE
  /\ pattern_rects = {}
  /\ pc = "loop"
  /\ applied = 0
  /\ since_clear = "none"

NoCall == [fn |-> "idle", args |-> <<>>, result |-> None, n |-> 0]

NoPar == [phase |-> "idle"]

(***************************************************************************)
(* main() (src/life.py, lines 371-567).  The state of the loop is handled  *)
(* as one record s; every operator below is one piece of the loop body and *)
(* gives the state after it.                                               *)
(***************************************************************************)
MainState ==
  [grid |-> grid, running |-> running, paused |-> paused,
   generation |-> generation, active_cells |-> active_cells,
   button_rects |-> button_rects, show_pattern_menu |-> show_pattern_menu,
   pattern_rects |-> pattern_rects]

\* pygame.Rect(x, y, w, h).collidepoint(pos), pos = (x, y).
CollidePoint(rect, pos) ==
  /\ rect.x <= pos[1] /\ pos[1] < rect.x + rect.w
  /\ rect.y <= pos[2] /\ pos[2] < rect.y + rect.h

IsNotStop(action) == action # "stop"

IsNotStart(action) == action # "start"

\* draw_buttons (lines 251-299): the rectangle of every visible button.
draw_buttons(is_paused) ==
  LET visible_buttons == IF is_paused THEN SelectSeq(ALL_BUTTONS, IsNotStop)
                         ELSE SelectSeq(ALL_BUTTONS, IsNotStart)
      total_button_width ==
        Len(visible_buttons) * BUTTON_WIDTH + (Len(visible_buttons) - 1) * BUTTON_MARGIN
      start_x == (WIDTH - total_button_width) \div 2
      button_y == HEIGHT - BUTTON_PANEL_HEIGHT + (BUTTON_PANEL_HEIGHT - BUTTON_HEIGHT) \div 2
  IN [action \in {visible_buttons[i] : i \in 1..Len(visible_buttons)} |->
       LET i == CHOOSE k \in 1..Len(visible_buttons) : visible_buttons[k] = action
       IN [x |-> start_x + (i - 1) * (BUTTON_WIDTH + BUTTON_MARGIN), y |-> button_y,
           w |-> BUTTON_WIDTH, h |-> BUTTON_HEIGHT]]

\* draw_pattern_menu (lines 325-364): one text rectangle per catalog name.  The
\* size of a rendered text is the font's; a click carries the name whose text
\* it falls on, so only the keys of the dictionary are kept.
draw_pattern_menu == DOMAIN PATTERNS

\* Lines 441-452: a pattern of the menu is selected.
SelectPattern(s, pattern_name) ==
  LET pattern_lines == PatternLines(PATTERNS[pattern_name])
      pattern_height == Len(pattern_lines)
      pattern_width ==
        CHOOSE n \in {Len(Strip(pattern_lines[k])) : k \in 1..Len(pattern_lines)} :
          \A k \in 1..Len(pattern_lines) : Len(Strip(pattern_lines[k])) <= n
      offset_r == (GRID_HEIGHT - pattern_height) \div 2
      offset_c == (GRID_WIDTH - pattern_width) \div 2
  IN [s EXCEPT !.grid = load_pattern(init_grid, pattern_name, <<offset_r, offset_c>>),
               !.show_pattern_menu = FALSE,
               !.paused = TRUE,
               !.generation = 0]

\* Lines 456-462: a left click on the grid area toggles the cell under it.
ToggleCell(s, pos) ==
  LET c == pos[1] \div (CELL_SIZE + MARGIN)
      r == pos[2] \div (CELL_SIZE + MARGIN)
  IN IF 0 <= r /\ r < GRID_HEIGHT /\ 0 <= c /\ c < GRID_WIDTH
     THEN [s EXCEPT !.grid = ArraySet(s.grid, r, c, ~ArrayGet(s.grid, r, c))]
     ELSE s

\* The Step button advancing the grid without counting the generation.
StepActionNoCount(s) ==
  IF s.paused
  THEN [s EXCEPT !.grid = update_grid(s.grid)]
  ELSE s

\* Lines 473-477: the Step button.
StepAction(s) ==
  IF s.paused
  THEN [s EXCEPT !.grid = update_grid(s.grid), !.generation = s.generation + 1]
  ELSE s

ClearActionKeepsCount(s) ==
  [s EXCEPT !.grid = init_grid, !.active_cells = 0]

\* Lines 478-482: the Clear button.
ClearAction(s) ==
  [s EXCEPT !.grid = init_grid, !.generation = 0, !.active_cells = 0]

\* Lines 469-488: the action of the button that was hit.
ButtonAction(s, action) ==
  CASE action = "start" -> [s EXCEPT !.paused = FALSE]
    [] action = "stop" -> [s EXCEPT !.paused = TRUE]
    [] action = "step" -> StepAction(s)
    [] action = "clear" -> ClearAction(s)
    [] action = "patterns" -> [s EXCEPT !.show_pattern_menu = ~s.show_pattern_menu]
    [] action = "quit" -> [s EXCEPT !.running = FALSE]
    [] OTHER -> s

\* What a left click lands on (lines 433-467): a pattern of the open menu, the
\* grid area, a button, or nothing.  A click is [pos |-> <<x, y>>, text |-> t],
\* t the catalog name whose menu text is drawn at pos, or "none".
ClickTarget(s, click) ==
  IF s.show_pattern_menu
  THEN (IF click.text \in s.pattern_rects THEN <<"select", click.text>>
        ELSE <<"nothing", "none">>)
  ELSE IF click.pos[2] < HEIGHT - BUTTON_PANEL_HEIGHT
  THEN <<"toggle", "none">>
  ELSE LET hit == {a \in DOMAIN s.button_rects : CollidePoint(s.button_rects[a], click.pos)}
       IN IF hit = {} THEN <<"nothing", "none">> ELSE <<"button", CHOOSE a \in hit : TRUE>>

\* Lines 433-488: the MOUSEBUTTONDOWN handler for button 1.
LeftClick(s, click) ==
  LET target == ClickTarget(s, click)
  IN CASE target[1] = "select" -> SelectPattern(s, target[2])
       [] target[1] = "toggle" -> ToggleCell(s, click.pos)
       [] target[1] = "button" -> ButtonAction(s, target[2])
       [] OTHER -> s

\* Lines 490-498: run after every event; kills the cell under the mouse while
\* the right button is held and the menu is closed.
RightKill(s, pos, right_pressed) ==
  LET c == pos[1] \div (CELL_SIZE + MARGIN)
      r == pos[2] \div (CELL_SIZE + MARGIN)
  IN IF ~s.show_pattern_menu /\ right_pressed
        /\ 0 <= r /\ r < GRID_HEIGHT /\ 0 <= c /\ c < GRID_WIDTH
     THEN [s EXCEPT !.grid = ArraySet(s.grid, r, c, FALSE)]
     ELSE s

\* Lines 427-498: the body of the event loop for one event
\* [type, button, click, right_pressed].
HandleOneEvent(s, event) ==
  LET s1 == IF event.type = "QUIT" THEN [s EXCEPT !.running = FALSE] ELSE s
      s2 == IF event.type = "MOUSEBUTTONDOWN" /\ event.button = 1
            THEN LeftClick(s1, event.click) ELSE s1
  IN RightKill(s2, event.click.pos, event.right_pressed)

\* Lines 504-510: the per-frame advance and the live-cell total.
FrameLogic(s) ==
  LET s1 == IF ~s.paused
            THEN [s EXCEPT !.grid = update_grid(s.grid), !.generation = s.generation + 1]
            ELSE s
  IN [s1 EXCEPT !.active_cells = SumGrid(s1.grid)]

\* Lines 538-544: the menu or the buttons are drawn, and their rectangles kept.
FrameRender(s) ==
  IF s.show_pattern_menu
  THEN [s EXCEPT !.pattern_rects = draw_pattern_menu]
  ELSE [s EXCEPT !.button_rects = draw_buttons(s.paused)]

(***************************************************************************)
(* Spec: the loop of main().  Any number of events is handled between two  *)
(* frames; the events are a window close, a left click and a mouse event   *)
(* with the right button held, at a few pixels: on one menu text (which is *)
(* a grid cell while the menu is closed), on every button and on the panel *)
(* beside the buttons.                                                     *)
(***************************************************************************)
MaxGen == 2

ButtonPixel(i) ==
  << (WIDTH - (5 * BUTTON_WIDTH + 4 * BUTTON_MARGIN)) \div 2
       + i * (BUTTON_WIDTH + BUTTON_MARGIN) + BUTTON_WIDTH \div 2,
     HEIGHT - BUTTON_PANEL_HEIGHT \div 2 >>

\* The pixel of a cell, which is on the text "blinker" when the menu is drawn.
CellClicks ==
  { [pos |-> <<WIDTH \div 2, 395>>, text |-> "blinker"] }

Clicks ==
  CellClicks
  \cup { [pos |-> <<5, HEIGHT - 1>>, text |-> "none"] }
  \cup {[pos |-> ButtonPixel(i), text |-> "none"] : i \in 0..4}

Events ==
  {[type |-> "QUIT", button |-> 0, click |-> c, right_pressed |-> FALSE] :
     c \in {[pos |-> <<5, HEIGHT - 1>>, text |-> "none"]}}
  \cup {[type |-> "MOUSEBUTTONDOWN", button |-> 1, click |-> c, right_pressed |-> FALSE] :
          c \in Clicks}
  \cup {[type |-> "MOUSEBUTTONDOWN", button |-> 1, click |-> c, right_pressed |-> TRUE] :
          c \in CellClicks}
  \cup {[type |-> "MOUSEMOTION", button |-> 0, click |-> c, right_pressed |-> TRUE] :
          c \in CellClicks}

\* What the handling of one event did to the grid and the counter: a pattern
\* load, Clear, an application of update_grid, a toggle or a kill that changed
\* a cell.
EventDid(s, event) ==
  LET left == event.type = "MOUSEBUTTONDOWN" /\ event.button = 1
      target == ClickTarget(s, event.click)
      s2 == IF left THEN LeftClick(s, event.click) ELSE s
      s3 == RightKill(s2, event.click.pos, event.right_pressed)
  IN (IF left /\ target[1] = "select" THEN {"load"} ELSE {})
     \cup (IF left /\ target = <<"button", "clear">> THEN {"clear"} ELSE {})
     \cup (IF left /\ target = <<"button", "step">> /\ s.paused THEN {"update_grid"} ELSE {})
     \cup (IF left /\ target[1] = "toggle" /\ s2.grid # s.grid THEN {"toggle"} ELSE {})
     \cup (IF s3.grid # s2.grid THEN {"kill"} ELSE {})

\* The number of applications of update_grid since the counter was last reset.
AppliedAfter(did) ==
  IF "update_grid" \in did THEN applied + 1
  ELSE IF did \cap {"clear", "load"} # {} THEN 0
  ELSE applied

Commit(s) ==
  /\ grid' = s.grid
  /\ running' = s.running
  /\ paused' = s.paused
  /\ generation' = s.generation
  /\ active_cells' = s.active_cells
  /\ button_rects' = s.button_rects
  /\ show_pattern_menu' = s.show_pattern_menu
  /\ pattern_rects' = s.pattern_rects

\* One pass of the body of "for event in pygame.event.get()", for an event
\* of a set.
HandleEventIn(events) ==
  /\ pc = "loop"
  /\ \E event \in events :
       LET did == EventDid(MainState, event)
       IN /\ "update_grid" \in did => generation < MaxGen
          /\ Commit(HandleOneEvent(MainState, event))
          /\ applied' = AppliedAfter(did)
          /\ since_clear' = IF "clear" \in did THEN "clear" ELSE "none"
  /\ UNCHANGED <<pc, call, par>>

HandleEvent == HandleEventIn(Events)

\* The rest of one pass of "while running": the advance, the rendering, and
\* the test of the loop.
Frame ==
  /\ pc = "loop"
  /\ ~paused => generation < MaxGen
  /\ Commit(FrameRender(FrameLogic(MainState)))
  /\ applied' = AppliedAfter(IF ~paused THEN {"update_grid"} ELSE {})
  /\ since_clear' = IF since_clear = "clear" THEN "frame" ELSE "none"
  /\ pc' = IF running THEN "loop" ELSE "exited"
  /\ UNCHANGED <<call, par>>

Init == MainInit /\ call = NoCall /\ par = NoPar

Next == HandleEvent \/ Frame

Spec == Init /\ [][Next]_vars

(***************************************************************************)
(* Properties of the loop of main().                                       *)
(***************************************************************************)

\* C7: the generation counter is never negative and always equals the number
\* of update_grid applications to the grid of main() since the last Clear,
\* pattern load or start; one step of the program leaves it, adds 1 to it
\* (exactly when update_grid is applied: Step while paused, or the advance of
\* a frame while running) or sets it to 0, and a counter that was not 0 is set
\* to 0 only by Clear (the grid becomes empty) or by a pattern load (the menu
\* closes).
C7_GenerationCounter ==
  /\ [](generation >= 0 /\ generation = applied)
  /\ [][/\ generation' \in {generation, generation + 1, 0}
        /\ (generation' = generation + 1) <=> (applied' = applied + 1)
        /\ (generation # 0 /\ generation' = 0) =>
             \/ grid' = init_grid
             \/ show_pattern_menu /\ ~show_pattern_menu']_vars

\* The counter has counted two applications, the last one by the advance of a
\* frame while running, on a grid that still has live cells.
C7_Witness ==
  /\ generation >= 2
  /\ applied = generation
  /\ ~paused
  /\ grid # init_grid

\* C8: while the simulation is running (paused is FALSE) the grid changes only
\* by rule application (update_grid), by Clear or by a pattern load; a left
\* click or the held right button changes a cell only while it is paused.
C8_EditsOnlyWhilePaused ==
  [][(~paused /\ grid' # grid) =>
       \/ grid' = update_grid(grid) /\ generation' = generation + 1
       \/ grid' = init_grid /\ generation' = 0
       \/ show_pattern_menu /\ ~show_pattern_menu' /\ generation' = 0]_vars

\* C15 as stated: the frame rendered next after a click on Clear is handled
\* shows an all-dead grid, a live-cell total of 0 and a generation counter of
\* 0, paused or running.
C15_ClearShowsZero ==
  [][(since_clear = "clear" /\ since_clear' = "frame") =>
       /\ grid' = init_grid
       /\ active_cells' = 0
       /\ generation' = 0]_vars

\* C15: the handling of a click on Clear leaves an all-dead grid, a live-cell
\* total of 0 and a generation counter of 0; the frame rendered next, with no
\* other event handled in between, shows an all-dead grid, a live-cell total
\* of 0 and a generation counter of 0 if the simulation is paused and of 1 if
\* it is running (the advance of that frame is applied to the empty grid and
\* counted).
C15_ClearThenFrame ==
  /\ [][since_clear' = "clear" =>
         /\ grid' = init_grid
         /\ active_cells' = 0
         /\ generation' = 0
         /\ paused' = paused]_vars
  /\ [][(since_clear = "clear" /\ since_clear' = "frame") =>
         /\ grid' = init_grid
         /\ active_cells' = 0
         /\ generation' = (IF paused THEN 0 ELSE 1)]_vars

\* A frame was rendered right after Clear was handled while running: the grid
\* is empty and the counter shows 1.
C15_Witness ==
  /\ since_clear = "frame"
  /\ ~paused
  /\ generation = 1
  /\ grid = init_grid
  /\ active_cells = 0

\* The grid of shape (h, w) whose live cells are those of the set live.
GridOf(live, h, w) ==
  [r \in 0..(h - 1) |-> [c \in 0..(w - 1) |-> <<r, c>> \in live]]

Cells(h, w) == (0..(h - 1)) \X (0..(w - 1))

\* The in-bounds cells of the 3x3 square centred at a cell.
Square(a, h, w) ==
  {rc \in Cells(h, w) : rc[1] - a[1] \in -1..1 /\ rc[2] - a[2] \in -1..1}

(***************************************************************************)
(* SpecRule: update_grid and _count_neighbors applied once to a grid of    *)
(* shape (GRID_HEIGHT, GRID_WIDTH).  The inputs are all the grids whose    *)
(* live cells lie in the 3x3 square around one anchor: every pattern of a  *)
(* full neighbourhood in the interior, and every pattern at each corner.   *)
(***************************************************************************)
RuleAnchors ==
  { <<GRID_HEIGHT \div 2, GRID_WIDTH \div 2>>,
    <<0, 0>>, <<0, GRID_WIDTH - 1>>,
    <<GRID_HEIGHT - 1, 0>>, <<GRID_HEIGHT - 1, GRID_WIDTH - 1>> }

RuleInputs(a) ==
  { GridOf(live, GRID_HEIGHT, GRID_WIDTH) :
    live \in SUBSET Square(a, GRID_HEIGHT, GRID_WIDTH) }

\* The cells a count is asked for: those around the anchor, continued past
\* an edge of the grid onto the opposite edge.
CountCells(a) ==
  { <<(a[1] + i) % GRID_HEIGHT, (a[2] + j) % GRID_WIDTH>> :
    i \in -1..1, j \in -1..1 }

RuleInit ==
  /\ MainInit
  /\ par = NoPar
  /\ \E a \in RuleAnchors : \E g \in RuleInputs(a) :
       call = [fn |-> "input", args |-> <<g, a>>, result |-> None, n |-> 0]

RuleUpdate ==
  /\ call.fn = "input"
  /\ call' = [call EXCEPT !.fn = "update_grid",
                          !.args = <<call.args[1]>>,
                          !.result = update_grid(call.args[1]),
                          !.n = 1]
  /\ UNCHANGED <<mainVars, par>>

RuleCount ==
  /\ call.fn = "input"
  /\ \E rc \in CountCells(call.args[2]) :
       call' = [call EXCEPT !.fn = "_count_neighbors",
                            !.args = <<call.args[1], rc[1], rc[2]>>,
                            !.result = get_neighbors(call.args[1], rc[1], rc[2]),
                            !.n = 1]
  /\ UNCHANGED <<mainVars, par>>

RuleNext == RuleUpdate \/ RuleCount

SpecRule == RuleInit /\ [][RuleNext]_vars

(***************************************************************************)
(* Reference notions for the properties: the Moore neighbourhood and the   *)
(* number of live cells in its in-bounds part.                             *)
(***************************************************************************)
MooreOffsets == ((-1..1) \X (-1..1)) \ {<<0, 0>>}

LiveNeighbours(g, r, c) ==
  Cardinality({o \in MooreOffsets :
                 /\ r + o[1] \in DOMAIN g
                 /\ c + o[2] \in DOMAIN g[0]
                 /\ g[r + o[1]][c + o[2]]})

\* Conway's rule, as a predicate on the old state and the live-neighbour count.
LifeRule(alive, n) == (alive /\ n \in {2, 3}) \/ (~alive /\ n = 3)

\* C1: the grid returned by update_grid has the input's shape, and cell (r, c)
\* is alive in it iff on the input grid the cell is alive with 2 or 3 live
\* neighbours or dead with exactly 3; the counts are those of the input grid.
C1_UpdateIsLifeRule ==
  call.fn = "update_grid" =>
    /\ DOMAIN call.result = 0..(GRID_HEIGHT - 1)
    /\ \A r \in 0..(GRID_HEIGHT - 1) :
         /\ DOMAIN call.result[r] = 0..(GRID_WIDTH - 1)
         /\ \A c \in 0..(GRID_WIDTH - 1) :
              call.result[r][c] =
                LifeRule(call.args[1][r][c], LiveNeighbours(call.args[1], r, c))

\* A call of update_grid in which one cell is born, one dies with fewer than 2
\* neighbours, one dies with more than 3 and one survives.
C1_Witness ==
  /\ call.fn = "update_grid"
  /\ \E a \in RuleAnchors :
       LET sq == Square(a, GRID_HEIGHT, GRID_WIDTH)
           in == call.args[1]
           out == call.result
       IN /\ \E x \in sq : ~in[x[1]][x[2]] /\ out[x[1]][x[2]]
          /\ \E x \in sq : in[x[1]][x[2]] /\ ~out[x[1]][x[2]]
                           /\ LiveNeighbours(in, x[1], x[2]) < 2
          /\ \E x \in sq : in[x[1]][x[2]] /\ ~out[x[1]][x[2]]
                           /\ LiveNeighbours(in, x[1], x[2]) > 3
          /\ \E x \in sq : in[x[1]][x[2]] /\ out[x[1]][x[2]]

\* The offsets (i, j) in the order the two loops of _count_neighbors visit them.
LoopOrder ==
  << <<-1, -1>>, <<-1, 0>>, <<-1, 1>>, <<0, -1>>, <<0, 0>>, <<0, 1>>,
     <<1, -1>>, <<1, 0>>, <<1, 1>> >>

\* LoopOrder with two positions exchanged, and LoopOrder backwards.
Exchanged(s, a, b) ==
  [k \in 1..Len(s) |-> IF k = a THEN s[b] ELSE IF k = b THEN s[a] ELSE s[k]]

Backwards(s) == [k \in 1..Len(s) |-> s[Len(s) + 1 - k]]

VisitOrders ==
  {Exchanged(LoopOrder, a, b) : a \in 1..9, b \in 1..9} \cup {Backwards(LoopOrder)}

\* The count accumulated by visiting the offsets in a given order.
RECURSIVE CountInOrder(_, _, _, _, _)
CountInOrder(g, r, c, order, k) ==
  IF k > Len(order) THEN 0
  ELSE NeighborTerm(g, r, c, order[k][1], order[k][2], NumRows(g), NumCols(g))
       + CountInOrder(g, r, c, order, k + 1)

\* C2: the neighbour count of an in-bounds cell is the number of live cells
\* among its in-bounds Moore neighbours: it lies in 0..8, is the same for every
\* order of visiting the offsets, does not change when the cell itself is
\* flipped, and cells past an edge add nothing (no wraparound).
C2_NeighborCount ==
  call.fn = "_count_neighbors" =>
    LET g == call.args[1]
        r == call.args[2]
        c == call.args[3]
    IN /\ call.result = LiveNeighbours(g, r, c)
       /\ call.result \in 0..8
       /\ \A order \in VisitOrders : CountInOrder(g, r, c, order, 1) = call.result
       /\ get_neighbors(ArraySet(g, r, c, ~g[r][c]), r, c) = call.result

\* The count of the corner cell (0, 0) while the cells just past the top edge,
\* continued onto the bottom row, are alive: they are not counted.
C2_Witness ==
  /\ call.fn = "_count_neighbors"
  /\ call.args[2] = 0 /\ call.args[3] = 0
  /\ call.args[1][GRID_HEIGHT - 1][0] /\ call.args[1][GRID_HEIGHT - 1][1]
  /\ call.result = 0

(***************************************************************************)
(* SpecOrbit: update_grid applied again and again, from the glider and the *)
(* blinker of src/generate_screenshot.py (lines 31-41) and from a 2x2      *)
(* block at the corners, along the edges and in the interior.              *)
(***************************************************************************)
MaxSteps == 4

GliderCells == {<<10, 10>>, <<11, 11>>, <<12, 9>>, <<12, 10>>, <<12, 11>>}

BlinkerCells == {<<20, 20>>, <<20, 21>>, <<20, 22>>}

BlockCells(r, c) == {<<r, c>>, <<r, c + 1>>, <<r + 1, c>>, <<r + 1, c + 1>>}

\* Top-left cells of the blocks tried: every combination of the first two and
\* the last two rows and columns a block fits in, and the middle.
BlockRows == {0, 1, GRID_HEIGHT \div 2, GRID_HEIGHT - 3, GRID_HEIGHT - 2}

BlockCols == {0, 1, GRID_WIDTH \div 2, GRID_WIDTH - 3, GRID_WIDTH - 2}

OrbitStarts(h, w) ==
  {GridOf(GliderCells, h, w), GridOf(BlinkerCells, h, w)}
  \cup {GridOf(BlockCells(r, c), h, w) : r \in BlockRows, c \in BlockCols}

OrbitInit ==
  /\ MainInit
  /\ par = NoPar
  /\ \E g \in OrbitStarts(GRID_HEIGHT, GRID_WIDTH) :
       call = [fn |-> "update_grid^n", args |-> <<g>>, result |-> g, n |-> 0]

\* One more application of update_grid to the grid the last one returned.
OrbitStep ==
  /\ call.fn = "update_grid^n"
  /\ call.n < MaxSteps
  /\ call' = [call EXCEPT !.result = update_grid(call.result), !.n = call.n + 1]
  /\ UNCHANGED <<mainVars, par>>

OrbitNext == OrbitStep

SpecOrbit == OrbitInit /\ [][OrbitNext]_vars

Translated(live, dr, dc) == {<<x[1] + dr, x[2] + dc>> : x \in live}

\* C3: four applications of update_grid to the glider (10,10), (11,11), (12,9),
\* (12,10), (12,11) give exactly the same five cells translated by (+1, +1).
C3_GliderAfter4 ==
  ( /\ call.fn = "update_grid^n"
    /\ call.args[1] = GridOf(GliderCells, GRID_HEIGHT, GRID_WIDTH)
    /\ call.n = 4 )
  => call.result = GridOf({<<11, 11>>, <<12, 12>>, <<13, 10>>, <<13, 11>>, <<13, 12>>},
                          GRID_HEIGHT, GRID_WIDTH)

C3_Witness ==
  /\ call.fn = "update_grid^n"
  /\ call.args[1] = GridOf(GliderCells, GRID_HEIGHT, GRID_WIDTH)
  /\ call.n = 4
  /\ call.result = GridOf(Translated(GliderCells, 1, 1), GRID_HEIGHT, GRID_WIDTH)

\* C4: one application of update_grid to the blinker (20,20), (20,21), (20,22)
\* gives the vertical triple (19,21), (20,21), (21,21), which differs from the
\* start, and two applications give back the start.
C4_BlinkerPeriod2 ==
  ( /\ call.fn = "update_grid^n"
    /\ call.args[1] = GridOf(BlinkerCells, GRID_HEIGHT, GRID_WIDTH) )
  => /\ call.n = 1 =>
          /\ call.result = GridOf({<<19, 21>>, <<20, 21>>, <<21, 21>>},
                                  GRID_HEIGHT, GRID_WIDTH)
          /\ call.result # call.args[1]
     /\ call.n = 2 => call.result = call.args[1]

C4_Witness ==
  /\ call.fn = "update_grid^n"
  /\ call.args[1] = GridOf(BlinkerCells, GRID_HEIGHT, GRID_WIDTH)
  /\ call.n = 2
  /\ call.result[20][20] /\ call.result[20][22] /\ ~call.result[19][21]

\* C5: update_grid applied once or twice to a grid holding only a 2x2 block,
\* wherever the block fits (an edge or a corner included), returns the input.
C5_BlockIsFixed ==
  ( /\ call.fn = "update_grid^n"
    /\ \E r \in BlockRows, c \in BlockCols :
         call.args[1] = GridOf(BlockCells(r, c), GRID_HEIGHT, GRID_WIDTH)
    /\ call.n \in {1, 2} )
  => call.result = call.args[1]

\* Two applications to the block in the bottom-right corner of the grid.
C5_Witness ==
  /\ call.fn = "update_grid^n"
  /\ call.args[1] = GridOf(BlockCells(GRID_HEIGHT - 2, GRID_WIDTH - 2),
                           GRID_HEIGHT, GRID_WIDTH)
  /\ call.n = 2
  /\ call.result[GRID_HEIGHT - 1][GRID_WIDTH - 1]

(***************************************************************************)
(* SpecStamp: load_pattern called once, for every name of the catalog (and *)
(* two names that differ from a key only in case, a name unlike any key    *)
(* and the empty name), on an empty and on a populated grid, at offsets    *)
(* inside the grid, before its top-left corner, across its bottom and      *)
(* right edges and wholly outside it.                                      *)
(***************************************************************************)
StampNames == DOMAIN PATTERNS \cup {"Glider", "BLOCK", "spaceship", ""}

PopulatedCells ==
  { <<0, 0>>, <<2, 2>>, <<0, GRID_WIDTH - 1>>, <<GRID_HEIGHT - 1, 0>>,
    <<GRID_HEIGHT - 1, GRID_WIDTH - 1>>, <<GRID_HEIGHT \div 2, GRID_WIDTH \div 2>> }

StampGrids(h, w) == {Zeros(h, w), GridOf(PopulatedCells, h, w)}

StampOffsets ==
  { <<0, 0>>, <<-1, -1>>, <<-2, 1>>,
    <<GRID_HEIGHT \div 2, GRID_WIDTH \div 2>>,
    <<GRID_HEIGHT - 2, GRID_WIDTH - 2>>, <<GRID_HEIGHT - 1, GRID_WIDTH - 1>>,
    <<3, GRID_WIDTH - 20>>,
    <<GRID_HEIGHT, GRID_WIDTH>>, <<0 - GRID_HEIGHT, 0 - GRID_WIDTH>> }

StampInit ==
  /\ MainInit
  /\ par = NoPar
  /\ \E g \in StampGrids(GRID_HEIGHT, GRID_WIDTH), name \in StampNames,
        offset \in StampOffsets :
       call = [fn |-> "input", args |-> <<g, name, offset>>, result |-> None, n |-> 0]

\* The call load_pattern(grid, pattern_name, offset); result is the caller's
\* grid after the call.
StampLoad ==
  /\ call.fn = "input"
  /\ call' = [call EXCEPT !.fn = "load_pattern",
                          !.result = load_pattern(call.args[1], call.args[2], call.args[3]),
                          !.n = 1]
  /\ UNCHANGED <<mainVars, par>>

\* np.sum(grid) (line 510) of the grid of the caller, before or after the
\* call of load_pattern: args are the arguments of load_pattern and whether it
\* was called, result the total.
StampSum ==
  /\ call.fn \in {"input", "load_pattern"}
  /\ call' = [fn |-> "np.sum",
              args |-> <<call.args[1], call.args[2], call.args[3],
                         call.fn = "load_pattern">>,
              result |-> SumGrid(IF call.fn = "input" THEN call.args[1] ELSE call.result),
              n |-> call.n + 1]
  /\ UNCHANGED <<mainVars, par>>

StampNext == StampLoad \/ StampSum

SpecStamp == StampInit /\ [][StampNext]_vars

\* The (row, column) of every 'O' of a pattern, read off its text: the row is
\* the number of line breaks before the character, less the one that opens the
\* text, and the column the distance from the last line break.
TextMarkers(text) ==
  { << Cardinality({i \in 1..(k - 1) : text[i] = NL}) - 1,
       k - 1 - (CHOOSE i \in 1..(k - 1) :
                  text[i] = NL /\ \A x \in (i + 1)..(k - 1) : text[x] # NL) >> :
    k \in {x \in 1..Len(text) : text[x] = "O"} }

\* C6: after load_pattern with a catalog pattern, a cell is alive iff it was
\* alive before or it is the in-bounds position (offset_r + pr, offset_c + pc)
\* of an 'O' of the pattern: markers that land outside are dropped (not
\* wrapped, not clamped), no cell is cleared, the shape is kept.
C6_StampIsAdditive ==
  (call.fn = "load_pattern" /\ call.args[2] \in DOMAIN PATTERNS) =>
    LET before == call.args[1]
        offset == call.args[3]
        targets == {<<x[1] + offset[1], x[2] + offset[2]>> :
                      x \in TextMarkers(PATTERNS[call.args[2]])}
    IN /\ DOMAIN call.result = DOMAIN before
       /\ \A r \in DOMAIN before :
            /\ DOMAIN call.result[r] = DOMAIN before[r]
            /\ \A c \in DOMAIN before[r] :
                 call.result[r][c] = (before[r][c] \/ <<r, c>> \in targets)

\* The glider stamped one row and one column before the corner of a populated
\* grid: (0,1), (1,0), (1,1) are set, the markers at row -1 and column -1 are
\* dropped, and (0,0), which the pattern marks dead, stays alive.
C6_Witness ==
  /\ call.fn = "load_pattern"
  /\ call.args[2] = "glider"
  /\ call.args[3] = <<-1, -1>>
  /\ call.args[1][0][0] /\ ~call.args[1][0][1]
  /\ call.result[0][0] /\ call.result[0][1] /\ call.result[1][0] /\ call.result[1][1]
  /\ SumGrid(call.result) = SumGrid(call.args[1]) + 3

\* C13: the live-cell total of the grid of init_grid is 0; after load_pattern
\* stamps a catalog pattern onto it, the total is the number of 'O' markers of
\* the pattern that land in bounds, and 4 for "block" at offset (0, 0).
C13_LiveTotals ==
  (call.fn = "np.sum" /\ call.args[1] = init_grid) =>
    LET name == call.args[2]
        offset == call.args[3]
        loaded == call.args[4]
    IN /\ ~loaded => call.result = 0
       /\ (loaded /\ name \in DOMAIN PATTERNS) =>
            call.result =
              Cardinality({x \in TextMarkers(PATTERNS[name]) :
                             /\ x[1] + offset[1] \in 0..(GRID_HEIGHT - 1)
                             /\ x[2] + offset[2] \in 0..(GRID_WIDTH - 1)})
       /\ (loaded /\ name = "block" /\ offset = <<0, 0>>) => call.result = 4

\* The total after "block" is stamped at (0, 0) of the empty grid, and it is 4.
C13_Witness ==
  /\ call.fn = "np.sum"
  /\ call.args[1] = init_grid
  /\ call.args[2] = "block"
  /\ call.args[3] = <<0, 0>>
  /\ call.args[4]
  /\ call.result = 4

ShapeOf(g) == <<NumRows(g), NumCols(g)>>

WrongShapes ==
  { <<GRID_HEIGHT + 1, GRID_WIDTH>>, <<GRID_HEIGHT, GRID_WIDTH + 1>>,
    <<GRID_HEIGHT + 1, GRID_WIDTH + 1>>, <<GRID_HEIGHT - 1, GRID_WIDTH>> }

\* Three live cells in a row or in a column, near or across row GRID_HEIGHT and
\* column GRID_WIDTH.
ShapeLiveSets ==
  {{<<r, c>>, <<r, c + 1>>, <<r, c + 2>>} :
     r \in (GRID_HEIGHT - 2)..GRID_HEIGHT, c \in {10, GRID_WIDTH \div 2, GRID_WIDTH - 2}}
  \cup {{<<r, c>>, <<r + 1, c>>, <<r + 2, c>>} :
          r \in {GRID_HEIGHT - 3, GRID_HEIGHT - 2},
          c \in {10, GRID_WIDTH \div 2, GRID_WIDTH - 1, GRID_WIDTH}}

ShapeInputs(shape) ==
  {GridOf(live, shape[1], shape[2]) : live \in ShapeLiveSets}

Returned(g) == [status |-> "returned", grid |-> g]

Failed == [status |-> "failed", grid |-> None]

\* What the kernel reads of an array with fewer rows than height: the rows of
\* the array, then the memory past its end, every cell of which reads as fill.
PastTheEnd(g, fill, height) ==
  [r \in 0..(height - 1) |->
     IF r \in DOMAIN g THEN g[r] ELSE [c \in DOMAIN g[0] |-> fill]]

\* The array the kernel returns has the shape of its argument (grid.copy(),
\* line 194): of an array x of more rows, the rows of g.
Crop(x, g) == [r \in DOMAIN g |-> x[r]]

\* The outcomes of update_grid(g), lines 214-227 with 171-211.  On an array
\* that has at least GRID_HEIGHT rows and GRID_WIDTH columns every index is
\* inside the array and the call returns.  On an array with fewer rows the
\* kernel reads and writes past the end of the array, which is undefined: the
\* process is killed, or the call returns what it computed from the memory it
\* read.  (Arrays with fewer columns are not among the inputs.)
update_grid_outcomes(g) ==
  CASE NumRows(g) >= GRID_HEIGHT /\ NumCols(g) >= GRID_WIDTH ->
         {Returned(update_grid(g))}
    [] NumRows(g) < GRID_HEIGHT /\ NumCols(g) >= GRID_WIDTH ->
         {Failed} \cup
         {Returned(Crop(update_grid(PastTheEnd(g, fill, GRID_HEIGHT)), g)) :
            fill \in BOOLEAN}

ShapeInit ==
  /\ MainInit
  /\ par = NoPar
  /\ \E shape \in WrongShapes : \E g \in ShapeInputs(shape) :
       call = [fn |-> "wrong shape", args |-> <<g>>, result |-> None, n |-> 0]

ShapeCall ==
  /\ call.fn = "wrong shape"
  /\ \E outcome \in update_grid_outcomes(call.args[1]) :
       call' = [call EXCEPT !.fn = "update_grid outcome", !.result = outcome, !.n = 1]
  /\ UNCHANGED <<mainVars, par>>

ShapeNext == ShapeCall

SpecShape == ShapeInit /\ [][ShapeNext]_vars

\* C9: update_grid applied to a grid whose shape differs from (GRID_HEIGHT,
\* GRID_WIDTH) fails without returning any grid, so it never returns a grid in
\* which the rule was applied to part of the cells only or in which a count
\* ignored live cells of the grid.
C9_WrongShapeFails ==
  (call.fn = "update_grid outcome"
     /\ ShapeOf(call.args[1]) # <<GRID_HEIGHT, GRID_WIDTH>>)
    => call.result.status = "failed"

(***************************************************************************)
(* SpecWorkers: one computation of _update_grid_numba (src/life.py, lines  *)
(* 171-211) taken cell by cell.  The kernel is compiled with parallel=True *)
(* (line 171); here up to MaxWorkers evaluations of the loop body are in   *)
(* progress at a time, the cells are taken in any order, and every         *)
(* evaluation is two steps: the reads of the body (lines 197-198) with the *)
(* decision of the rule, then its write to new_grid (lines 203, 208).      *)
(* par.reordered and par.overlapped record that a cell was taken before a  *)
(* cell that precedes it in the row-by-row order, and that two evaluations *)
(* were in progress together.                                              *)
(***************************************************************************)
MaxWorkers == 2

ParHeight == 2

\* The columns of the grid of the computation: as many as a neighbourhood has.
ParColumns == {0, 1, 2}

ParWidth == Cardinality(ParColumns)

\* The row-by-row loop of lines 194-211 from its k-th cell on: new_grid after
\* the loop.
RECURSIVE UpdateLoop(_, _, _, _, _)
UpdateLoop(g, new_grid, k, height, width) ==
  IF k = height * width THEN new_grid
  ELSE LET r == k \div width
           c == k % width
           neighbors == _count_neighbors(g, r, c, height, width)
           state == g[r][c]
           written ==
             IF state
             THEN (IF neighbors < 2 \/ neighbors > 3
                   THEN ArraySet(new_grid, r, c, FALSE) ELSE new_grid)
             ELSE (IF neighbors = 3
                   THEN ArraySet(new_grid, r, c, TRUE) ELSE new_grid)
       IN UpdateLoop(g, written, k + 1, height, width)

\* Input grids: empty, full, the first row alive, and three cells in an L.
ParLiveSets(h, w) ==
  { {}, Cells(h, w), {<<0, c>> : c \in 0..(w - 1)}, {<<0, 0>>, <<0, 1>>, <<1, 0>>} }

ParInputs(h, w) == {GridOf(live, h, w) : live \in ParLiveSets(h, w)}

ParInit ==
  /\ MainInit
  /\ call = NoCall
  /\ \E g \in ParInputs(ParHeight, ParWidth) :
       par = [phase |-> "running", grid |-> g, new_grid |-> g,
              todo |-> Cells(ParHeight, ParWidth), inflight |-> {},
              reordered |-> FALSE, overlapped |-> FALSE]

\* The array an evaluation reads: new_grid, the array being written.
ParSourceNewGrid(p) == p.new_grid

\* The array an evaluation reads (lines 197-198): grid, the argument.
ParSource(p) == p.grid

RowMajor(x, width) == x[1] * width + x[2]

\* Lines 197-209 without the write: the count, the state and the decision.
ParEvaluate ==
  /\ par.phase = "running"
  /\ Cardinality(par.inflight) < MaxWorkers
  /\ \E x \in par.todo :
       LET src == ParSource(par)
           neighbors == _count_neighbors(src, x[1], x[2], ParHeight, ParWidth)
           state == src[x[1]][x[2]]
           value == CellRule(state, neighbors)
       IN par' = [par EXCEPT
                    !.todo = @ \ {x},
                    !.inflight = @ \cup {[cell |-> x, write |-> value # state,
                                          value |-> value]},
                    !.reordered = @ \/ \E y \in par.todo :
                                         RowMajor(y, ParWidth) < RowMajor(x, ParWidth),
                    !.overlapped = @ \/ par.inflight # {}]
  /\ UNCHANGED <<mainVars, call>>

\* Lines 203 and 208: the write of one evaluation to new_grid.
ParWrite ==
  /\ par.phase = "running"
  /\ \E e \in par.inflight :
       par' = [par EXCEPT
                 !.inflight = @ \ {e},
                 !.new_grid = IF e.write
                              THEN ArraySet(@, e.cell[1], e.cell[2], e.value)
                              ELSE @]
  /\ UNCHANGED <<mainVars, call>>

\* Line 211: every cell was evaluated and written.
ParReturn ==
  /\ par.phase = "running"
  /\ par.todo = {}
  /\ par.inflight = {}
  /\ par' = [par EXCEPT !.phase = "returned"]
  /\ UNCHANGED <<mainVars, call>>

ParNext == ParEvaluate \/ ParWrite \/ ParReturn

SpecWorkers == ParInit /\ [][ParNext]_vars

\* C10: during one computation the input grid is never written, and a cell of
\* the output changes only by the write of the evaluation of that same cell,
\* to the value the rule gives from the input grid; so whatever the order and
\* the overlap of the evaluations, the completed output is the output of the
\* sequential row-by-row loop.
C10_AnyOrderSameOutput ==
  /\ [](par.phase = "returned" =>
          par.new_grid = UpdateLoop(par.grid, par.grid, 0, ParHeight, ParWidth))
  /\ [][/\ par'.grid = par.grid
        /\ \A x \in Cells(ParHeight, ParWidth) :
             par'.new_grid[x[1]][x[2]] # par.new_grid[x[1]][x[2]] =>
               /\ \E e \in par.inflight \ par'.inflight : e.cell = x
               /\ par'.new_grid[x[1]][x[2]] =
                    LifeRule(par.grid[x[1]][x[2]],
                             LiveNeighbours(par.grid, x[1], x[2]))]_vars

\* A completed computation that changed the grid, whose cells were not taken
\* in row-by-row order and two of whose evaluations overlapped.
C10_Witness ==
  /\ par.phase = "returned"
  /\ par.reordered
  /\ par.overlapped
  /\ par.new_grid # par.grid

(***************************************************************************)
(* SpecColor: a grid is advanced by update_grid, and a live cell of it is  *)
(* coloured as the drawing loop of main() colours it (src/life.py, lines   *)
(* 529-532): the count of get_neighbors on the grid, given to              *)
(* get_cell_color.  The grids are all those whose live cells lie in the    *)
(* 3x3 square around the middle cell, so every count from 0 to 8 occurs.   *)
(***************************************************************************)
ColorAnchor == <<GRID_HEIGHT \div 2, GRID_WIDTH \div 2>>

ColorInit ==
  /\ MainInit
  /\ par = NoPar
  /\ \E g \in RuleInputs(ColorAnchor) :
       call = [fn |-> "grid", args |-> <<g>>, result |-> None, n |-> 0]

\* update_grid(grid): the grid the cells of which live on or die.
ColorUpdate ==
  /\ call.fn = "grid"
  /\ call' = [call EXCEPT !.fn = "next grid", !.result = update_grid(call.args[1]),
                          !.n = 1]
  /\ UNCHANGED <<mainVars, par>>

\* Lines 529-532 for one live cell (r, c) of the grid: args are the count, the
\* cell, the grid and the grid update_grid returned for it.
ColorDraw ==
  /\ call.fn = "next grid"
  /\ \E x \in Cells(GRID_HEIGHT, GRID_WIDTH) :
       /\ call.args[1][x[1]][x[2]]
       /\ LET n_count == get_neighbors(call.args[1], x[1], x[2])
          IN call' = [fn |-> "get_cell_color",
                      args |-> <<n_count, x[1], x[2], call.args[1], call.result>>,
                      result |-> get_cell_color(n_count),
                      n |-> 2]
  /\ UNCHANGED <<mainVars, par>>

ColorNext == ColorUpdate \/ ColorDraw

SpecColor == ColorInit /\ [][ColorNext]_vars

\* C12: the count given to get_cell_color for a live cell is the count of the
\* rule, in 0..8; the colour is Lonely iff the count is 0 or 1, Stable iff it
\* is 2 or 3 and Crowded iff it is 4..8, three different colours; and the cell
\* is alive in update_grid(grid) iff its colour is Stable.
C12_ColorClasses ==
  call.fn = "get_cell_color" =>
    LET n == call.args[1]
        r == call.args[2]
        c == call.args[3]
        g == call.args[4]
        next == call.args[5]
    IN /\ n \in 0..8
       /\ n = LiveNeighbours(g, r, c)
       /\ Cardinality({COLOR_LONELY, COLOR_STABLE, COLOR_CROWDED}) = 3
       /\ (call.result = COLOR_LONELY) <=> (n \in {0, 1})
       /\ (call.result = COLOR_STABLE) <=> (n \in {2, 3})
       /\ (call.result = COLOR_CROWDED) <=> (n \in 4..8)
       /\ next[r][c] <=> (call.result = COLOR_STABLE)
       /\ (call.result \in {COLOR_LONELY, COLOR_CROWDED}) => ~next[r][c]

\* A live cell with four live neighbours: it is Crowded, and dead in the next
\* grid.
C12_Witness ==
  /\ call.fn = "get_cell_color"
  /\ call.args[1] = 4
  /\ call.args[4][call.args[2]][call.args[3]]
  /\ call.result = COLOR_CROWDED
  /\ ~call.args[5][call.args[2]][call.args[3]]

(***************************************************************************)
(* SpecStill: a pattern of the "Still lifes" section of the catalog        *)
(* (src/patterns.py, lines 66-108) is stamped by load_pattern onto the     *)
(* grid of init_grid, at an offset that leaves at least one dead row and   *)
(* column between the pattern and every edge, and update_grid is applied   *)
(* to the stamped grid.                                                    *)
(***************************************************************************)
StillLifes == {"block", "tub", "beehive", "loaf", "boat", "pond", "ship", "aircraft"}

\* Offsets near the four corners of the grid and in its middle; the largest
\* of the patterns has 4 rows and 5 columns.
StillOffsets ==
  { <<1, 1>>, <<1, GRID_WIDTH - 6>>, <<GRID_HEIGHT - 5, 1>>,
    <<GRID_HEIGHT - 5, GRID_WIDTH - 6>>, <<GRID_HEIGHT \div 2, GRID_WIDTH \div 2>> }

StillInit ==
  /\ MainInit
  /\ par = NoPar
  /\ \E name \in StillLifes, offset \in StillOffsets :
       call = [fn |-> "input", args |-> <<name, offset>>, result |-> None, n |-> 0]

\* grid = init_grid(); load_pattern(grid, name, offset)
StillLoad ==
  /\ call.fn = "input"
  /\ call' = [call EXCEPT !.fn = "load_pattern",
                          !.result = load_pattern(init_grid, call.args[1], call.args[2]),
                          !.n = 1]
  /\ UNCHANGED <<mainVars, par>>

\* update_grid(grid) of the stamped grid, which is kept as the third argument.
StillUpdate ==
  /\ call.fn = "load_pattern"
  /\ call' = [fn |-> "update_grid",
              args |-> <<call.args[1], call.args[2], call.result>>,
              result |-> update_grid(call.result),
              n |-> 2]
  /\ UNCHANGED <<mainVars, par>>

StillNext == StillLoad \/ StillUpdate

SpecStill == StillInit /\ [][StillNext]_vars

\* The pattern lies in bounds at the offset with a dead margin on every side:
\* every marker lands at a row in 1..GRID_HEIGHT-2 and a column in
\* 1..GRID_WIDTH-2.
HasMargin(name, offset) ==
  \A x \in TextMarkers(PATTERNS[name]) :
    /\ x[1] + offset[1] \in 1..(GRID_HEIGHT - 2)
    /\ x[2] + offset[2] \in 1..(GRID_WIDTH - 2)

\* C14: every pattern of the "Still lifes" section, stamped onto an empty grid
\* in bounds with a dead margin on every side, is a fixed point of the rule:
\* update_grid returns the stamped grid.
C14_StillLifesAreFixed ==
  (call.fn = "update_grid" /\ call.args[1] \in StillLifes
     /\ HasMargin(call.args[1], call.args[2])) =>
    call.result = call.args[3]

(***************************************************************************)
(* SpecMenu: the loop of main() with the events of the pattern menu: a     *)
(* left click on the Start/Stop button and on the Patterns button, and at  *)
(* the pixel of one menu text a left click and a left click with the right *)
(* button held.  The menu text is "beehive": the texts are                 *)
(* centred at x = WIDTH \div 2 and "beehive", the fifth of the sorted      *)
(* names, has its top at y = HEIGHT \div 4 + 20 + 4 * 30 = 332 (lines      *)
(* 346-361), so the pixel (WIDTH \div 2, 345) is on it; it is the pixel of *)
(* cell (38, 60), which the centred beehive has alive.                     *)
(***************************************************************************)
MenuClicks ==
  { [pos |-> <<WIDTH \div 2, 345>>, text |-> "beehive"] }

\* The places of the Start/Stop button and of the Patterns button.
MenuButtons == {0, 3}

MenuEvents ==
  {[type |-> "MOUSEBUTTONDOWN", button |-> 1, click |-> c, right_pressed |-> FALSE] :
     c \in MenuClicks \cup {[pos |-> ButtonPixel(i), text |-> "none"] : i \in MenuButtons}}
  \cup {[type |-> "MOUSEBUTTONDOWN", button |-> 1, click |-> c, right_pressed |-> TRUE] :
          c \in MenuClicks}

HandleMenuEvent == HandleEventIn(MenuEvents)

MenuNext == HandleMenuEvent \/ Frame

SpecMenu == Init /\ [][MenuNext]_vars

\* C16: while the pattern menu is open, one step of the program either
\* selects a pattern (the menu closes, the simulation is paused, the counter
\* is 0 and the grid is the empty grid with one catalog pattern stamped at its
\* centring offset) or leaves the menu open and paused unchanged, and then
\* the grid and the counter are unchanged (no toggle, no kill, no button
\* action) or, when running, the grid is advanced by one generation and the
\* counter by 1.
C16_MenuClicks ==
  [][show_pattern_menu =>
       \/ /\ ~show_pattern_menu'
          /\ paused'
          /\ generation' = 0
          /\ running' = running
          /\ \E name \in DOMAIN PATTERNS : grid' = SelectPattern(MainState, name).grid
       \/ /\ show_pattern_menu'
          /\ paused' = paused
          /\ \/ grid' = grid /\ generation' = generation
             \/ ~paused /\ grid' = update_grid(grid) /\ generation' = generation + 1]_vars
====
